---------------------------- MODULE Spec2Model ----------------------------
(***************************************************************************)
(* A model of research_paper_downloader.py.                                *)
(*                                                                         *)
(* Text is modelled as a sequence of code points (97 is "a", 32 the space, *)
(* 10 the line feed, ...), so that sanitize_filename, the file name        *)
(* formatting, the URL rewrite and the parsing of the judge's answer are   *)
(* computed the way the code computes them.                                *)
(*                                                                         *)
(* Three specifications share the variables:                               *)
(*   SpecSanitize  sanitize_filename, one action per statement;            *)
(*   SpecSearch    the four source adapters, one action per request or     *)
(*                 statement group of their loops;                         *)
(*   Spec          download_papers, one action per step of a candidate.    *)
(* SpecSearchFair and SpecFaults add the fairness of a sequential program  *)
(* whose requests all carry a timeout; SpecAdaptersAndPipeline is the      *)
(* union of SpecSearch and Spec.                                           *)
(*                                                                         *)
(* Network operations may fail.  The local file operations of              *)
(* download_file and os.remove are taken to succeed.  The appends of       *)
(* log_rejection succeed under Spec; under SpecFaults the log cannot be    *)
(* written.                                                                *)
(***************************************************************************)
EXTENDS Integers, Sequences, FiniteSets, TLC

VARIABLES
    \* sanitize_filename
    filename,        \* the local variable `filename` (a text), or the result
    sanIn,           \* the argument the call was made with
    sanPc,           \* the statement sanitize_filename is at
    \* the source adapters (search_arxiv, search_doaj, search_pmc, search_plos)
    adapter,         \* which search_* function runs
    argCap,          \* the max_results the caller passed (NoCap: not passed)
    max_results,     \* the local max_results (after the default is applied)
    papers,          \* the local list `papers`: a sequence of stubs
    cursor,          \* `start` of search_arxiv, `page` of search_doaj
    current_batch,   \* the size asked of the backend for the page
    entries,         \* the page last received (`entries`, `results`, `ids`)
    trace,           \* history: the requests and sleeps of the call, in order
    result,          \* the sequence the call returned
    searchPc,        \* the statement the adapter is at
    \* download_papers
    query,           \* the query the pipeline is invoked with
    backend,         \* environment: what each source's search returns for query
    runs,            \* the number of invocations of download_papers so far
    pc,              \* the statement download_papers is at
    source,          \* the position in `sources` of the source being processed
    srcPapers,       \* `papers`: what search_func(query) returned
    idx,             \* `i`: the index of the enumerate loop (0-based)
    files,           \* the file system: the paths at which a file exists
    content,         \* the content of the file at the candidate's filepath
    ledger,          \* the records of the query's rejection log, in order
    downloaded_count,
    rejected_count,
    total_downloaded,
    total_rejected,
    pdf_text,        \* the excerpt extract_pdf_text returned
    cand,            \* history: what was done for the current candidate
    kept,            \* history: <<run, source, index>> of the candidates kept
    logFaults,       \* environment: whether the rejection log cannot be written
    searched,        \* history: the positions in `sources` searched in this run
    ended,           \* history: <<run, source, index, disposition>> of every stub
    snapshot         \* history: the file system at the end of each run

sanVars == <<filename, sanIn, sanPc>>
searchVars == <<adapter, argCap, max_results, papers, cursor, current_batch,
                entries, trace, result, searchPc>>
pipeVars == <<query, backend, runs, pc, source, srcPapers, idx, files, content,
              ledger, downloaded_count, rejected_count, total_downloaded,
              total_rejected, pdf_text, cand, kept, logFaults, searched, ended,
              snapshot>>
vars == <<sanVars, searchVars, pipeVars>>

\* Python's None where a text is expected: a value no text equals.
None == <<-1>>

\* max_results not passed by the caller (the parameter's default applies).
NoCap == -1

Min(a, b) == IF a < b THEN a ELSE b

(***************************************************************************)
(* Text helpers.                                                           *)
(***************************************************************************)

\* The code points Python's \s and str.strip() treat as whitespace (below 256).
WhitespaceChars == {9, 10, 11, 12, 13, 28, 29, 30, 31, 32, 133, 160}

\* Unicode category Cc: the C0 controls, DEL and the C1 controls.
ControlChars == (0..31) \cup (127..159)

\* The characters of the class [<>:"/\\|?*] of line 20.
IllegalChars == {60, 62, 58, 34, 47, 92, 124, 63, 42}

\* re.sub(r'[\n\r\t]', ' ', s)
SubControl(s) == [i \in 1..Len(s) |-> IF s[i] \in {10, 13, 9} THEN 32 ELSE s[i]]

\* re.sub(r'[<>:"/\\|?*]', '_', s)
SubIllegal(s) == [i \in 1..Len(s) |-> IF s[i] \in IllegalChars THEN 95 ELSE s[i]]

\* re.sub(r'\s+', ' ', s): every maximal run of whitespace becomes one space.
\* Computed on the two halves of s; a run that spans the cut is joined.
RECURSIVE CollapseSpaces(_)
CollapseSpaces(s) ==
    IF Len(s) = 0 THEN <<>>
    ELSE IF Len(s) = 1 THEN <<IF s[1] \in WhitespaceChars THEN 32 ELSE s[1]>>
    ELSE LET m == Len(s) \div 2
             l == CollapseSpaces(SubSeq(s, 1, m))
             r == CollapseSpaces(SubSeq(s, m + 1, Len(s)))
         IN  IF s[m] \in WhitespaceChars /\ s[m + 1] \in WhitespaceChars
             THEN l \o Tail(r)
             ELSE l \o r

\* str.strip(): leading and trailing whitespace removed.
Strip(s) ==
    LET solid == {i \in 1..Len(s) : s[i] \notin WhitespaceChars}
    IN  IF solid = {} THEN <<>>
        ELSE SubSeq(s, CHOOSE i \in solid : \A j \in solid : i <= j,
                       CHOOSE i \in solid : \A j \in solid : j <= i)

\* s[:n]
Prefix(s, n) == SubSeq(s, 1, Min(n, Len(s)))

\* The length limit of line 24.
NameLimit == 150

\* filename.strip()[:150]
StripAndLimit(s) == Prefix(Strip(s), NameLimit)

\* sanitize_filename as a whole (lines 18-24).
sanitize_filename(s) == StripAndLimit(CollapseSpaces(SubIllegal(SubControl(s))))

(***************************************************************************)
(* SpecSanitize: sanitize_filename run on bounded inputs.                  *)
(***************************************************************************)

\* Inputs: every text of at most MaxLen characters over SanAlphabet, taken
\* once or LongRep times in a row (the latter reaches past the length limit).
MaxLen == 3
LongRep == 60

\* "a", space, line feed, "/", SOH (a control character that is neither
\* \n, \r, \t nor whitespace), vertical tab (a control character that is
\* whitespace).
SanAlphabet == {97, 32, 10, 47, 1, 11}

RECURSIVE Repeat(_, _)
Repeat(s, k) == IF k = 0 THEN <<>> ELSE s \o Repeat(s, k - 1)

ShortTexts == UNION {[1..n -> SanAlphabet] : n \in 0..MaxLen}

SanInputs == ShortTexts \cup {Repeat(s, LongRep) : s \in ShortTexts}

SearchIdle ==
    /\ adapter = "none"
    /\ argCap = NoCap
    /\ max_results = NoCap
    /\ papers = <<>>
    /\ cursor = 0
    /\ current_batch = 0
    /\ entries = <<>>
    /\ trace = <<>>
    /\ result = <<>>
    /\ searchPc = "idle"

\* The history of a candidate: its <<source, index>>, the operations made for
\* it (fetches with their URL and success, extraction, judge call, removal,
\* ledger append, sleep), what download_file last returned, the judge's
\* answer and the verdict, the disposition reached, and the counts and the
\* ledger length when the candidate was started.
NoCand ==
    [id |-> <<0, 0>>, ops |-> <<>>, outcome |-> <<FALSE, <<-1>>>>, judge |-> "none",
     verdict |-> FALSE, disp |-> "none", count0 |-> 0, rej0 |-> 0, ledger0 |-> 0]

PipeIdle ==
    /\ query = <<>>
    /\ backend = <<>>
    /\ runs = 0
    /\ pc = "off"
    /\ source = 0
    /\ srcPapers = <<>>
    /\ idx = 0
    /\ files = {}
    /\ content = [pdf |-> FALSE, pages |-> <<>>]
    /\ ledger = <<>>
    /\ downloaded_count = 0
    /\ rejected_count = 0
    /\ total_downloaded = 0
    /\ total_rejected = 0
    /\ pdf_text = <<>>
    /\ cand = NoCand
    /\ kept = {}
    /\ logFaults = FALSE
    /\ searched = <<>>
    /\ ended = {}
    /\ snapshot = <<>>

InitSanitize ==
    /\ sanIn \in SanInputs
    /\ filename = sanIn
    /\ sanPc = "line18"
    /\ SearchIdle
    /\ PipeIdle

SanLine18 ==
    /\ sanPc = "line18"
    /\ filename' = SubControl(filename)
    /\ sanPc' = "line20"
    /\ UNCHANGED <<sanIn, searchVars, pipeVars>>

SanLine20 ==
    /\ sanPc = "line20"
    /\ filename' = SubIllegal(filename)
    /\ sanPc' = "line22"
    /\ UNCHANGED <<sanIn, searchVars, pipeVars>>

SanLine22 ==
    /\ sanPc = "line22"
    /\ filename' = CollapseSpaces(filename)
    /\ sanPc' = "line24"
    /\ UNCHANGED <<sanIn, searchVars, pipeVars>>

SanLine24 ==
    /\ sanPc = "line24"
    /\ filename' = StripAndLimit(filename)
    /\ sanPc' = "returned"
    /\ UNCHANGED <<sanIn, searchVars, pipeVars>>

NextSanitize == SanLine18 \/ SanLine20 \/ SanLine22 \/ SanLine24

SpecSanitize == InitSanitize /\ [][NextSanitize]_vars

\* C8: for every input, the text sanitize_filename returns contains no
\* control character, none of the characters < > : " / \ | ? * and has at
\* most 150 characters.
C8_SanitizedIsClean ==
    sanPc = "returned" =>
        /\ \A i \in 1..Len(filename) : filename[i] \notin ControlChars
        /\ \A i \in 1..Len(filename) : filename[i] \notin IllegalChars
        /\ Len(filename) <= 150

(***************************************************************************)
(* The source adapters.                                                    *)
(*                                                                         *)
(* A backend answers a request with a failure (transport error, error      *)
(* status, undecodable body) or with a page of items.  A stub is a record  *)
(* [title, pdf_url].                                                       *)
(***************************************************************************)

SanIdle ==
    /\ filename = <<>>
    /\ sanIn = <<>>
    /\ sanPc = "idle"

\* Requested caps: 0..MaxCap, one cap beyond a page (BigCap) and "not passed".
MaxCap == 2
BigCap == 150
\* A misbehaving backend returns up to OverFill items more than asked for.
OverFill == 1

SearchCaps == (0..MaxCap) \cup {BigCap, NoCap}

Adapters == {"arXiv", "DOAJ", "PMC", "PLOS"}

\* s.endswith(suffix)
EndsWith(s, suffix) ==
    /\ Len(s) >= Len(suffix)
    /\ SubSeq(s, Len(s) - Len(suffix) + 1, Len(s)) = suffix

DotPdf == <<46, 112, 100, 102>>          \* ".pdf"

Stub(title, url) == [title |-> title, pdf_url |-> url]

Page(n, item) == [i \in 1..n |-> item]

\* The page sizes a backend answers with when asked for c items.
PageSizes(c) == {n \in {0, 1, c - 1, c, c + OverFill} : n >= 0}

\* Pages of one kind of item, and pages whose last item is of another kind.
Pages(c, item, odd) ==
    {Page(n, item) : n \in PageSizes(c)}
        \cup {Page(n - 1, item) \o <<o>> : n \in PageSizes(c) \ {0}, o \in odd}

Failure == [ok |-> FALSE, items |-> <<>>]

Responses(c, item, odd) ==
    {Failure} \cup {[ok |-> TRUE, items |-> pg] : pg \in Pages(c, item, odd)}

Get(asked, resp) ==
    [op |-> "get", asked |-> asked, ok |-> resp.ok, got |-> Len(resp.items)]

\* The delay left out of the history of the call.
NoSleep == [op |-> "none"]

\* time.sleep(1) (lines 138, 189)
Sleep == [op |-> "sleep"]

\* The handling of an answer raised (a missing link, an unknown uid).
Raise == [op |-> "raise"]

\* The end-of-results test left out: the loop goes on after a short page.
ShortPageIgnored(got, asked) == FALSE

\* `len(entries) < current_batch` (line 140), `len(results) < page_size` (line 185)
ShortPage(got, asked) == got < asked

\* ---- search_arxiv (lines 100-147)

ArxivDefaultCap == 1000
batch_size == 100

\* An Atom entry: its title and the href of its link typed application/pdf
\* (None when the entry has no such link: line 131 then raises).
ArxivGood == [title |-> <<84>>, pdf |-> <<117>>]
ArxivNoLink == [title |-> <<84>>, pdf |-> None]

\* The entries the for loop of lines 129-135 appends before an entry raises.
ArxivAppended(es) ==
    LET bad == {i \in 1..Len(es) : es[i].pdf = None}
        upto == IF bad = {} THEN Len(es)
                ELSE (CHOOSE i \in bad : \A j \in bad : i <= j) - 1
    IN  [i \in 1..upto |-> Stub(Strip(es[i].title), es[i].pdf)]

ArxivRaises(es) == \E i \in 1..Len(es) : es[i].pdf = None

\* `return papers[:max_results]` (line 147)
ArxivResult(ps, cap) == Prefix(ps, cap)

ArxivBegin ==
    /\ adapter = "arXiv" /\ searchPc = "begin"
    /\ max_results' = IF argCap = NoCap THEN ArxivDefaultCap ELSE argCap
    /\ papers' = <<>>
    /\ cursor' = 0
    /\ searchPc' = "while"
    /\ UNCHANGED <<adapter, argCap, current_batch, entries, trace, result, sanVars, pipeVars>>

\* The loop test of line 111 and lines 112-113.
ArxivWhile ==
    /\ adapter = "arXiv" /\ searchPc = "while"
    /\ IF Len(papers) < max_results
       THEN /\ current_batch' = Min(batch_size, max_results - Len(papers))
            /\ searchPc' = "get"
       ELSE /\ searchPc' = "return"
            /\ UNCHANGED current_batch
    /\ UNCHANGED <<adapter, argCap, max_results, papers, cursor, entries, trace,
                   result, sanVars, pipeVars>>

\* The request and the handling of its answer (lines 120-137, 143-145).
ArxivGet ==
    /\ adapter = "arXiv" /\ searchPc = "get"
    /\ \E resp \in Responses(current_batch, ArxivGood, {ArxivNoLink}) :
          /\ trace' = IF resp.ok /\ ArxivRaises(resp.items)
                       THEN trace \o <<Get(current_batch, resp), Raise>>
                       ELSE Append(trace, Get(current_batch, resp))
          /\ entries' = resp.items
          /\ IF ~resp.ok \/ resp.items = <<>>
             THEN /\ searchPc' = "return"
                  /\ UNCHANGED <<papers, cursor>>
             ELSE /\ papers' = papers \o ArxivAppended(resp.items)
                  /\ IF ArxivRaises(resp.items)
                     THEN /\ searchPc' = "return"
                          /\ UNCHANGED cursor
                     ELSE /\ cursor' = cursor + current_batch
                          /\ searchPc' = "sleep"
    /\ UNCHANGED <<adapter, argCap, max_results, current_batch, result, sanVars, pipeVars>>

\* time.sleep(1) and the end-of-results test (lines 138-141).
ArxivSleep ==
    /\ adapter = "arXiv" /\ searchPc = "sleep"
    /\ trace' = Append(trace, Sleep)
    /\ searchPc' = IF ShortPage(Len(entries), current_batch) THEN "return" ELSE "while"
    /\ UNCHANGED <<adapter, argCap, max_results, papers, cursor, current_batch,
                   entries, result, sanVars, pipeVars>>

ArxivReturn ==
    /\ adapter = "arXiv" /\ searchPc = "return"
    /\ result' = ArxivResult(papers, max_results)
    /\ searchPc' = "returned"
    /\ UNCHANGED <<adapter, argCap, max_results, papers, cursor, current_batch,
                   entries, trace, sanVars, pipeVars>>

\* ---- search_doaj (lines 149-198)

page_size == 100
DoajPageCeiling == 50

\* A DOAJ article: its title and its bibjson links, each [type, url].
DoajGood == [title |-> <<84>>,
             link |-> << [type |-> "fulltext", url |-> <<117, 46, 112, 100, 102>>] >>]
DoajHtml == [title |-> <<84>>,
             link |-> << [type |-> "fulltext", url |-> <<117>>] >>]

\* Lines 173-177: the url of the first full-text link that ends in .pdf.
DoajPdfUrl(item) ==
    LET hits == {i \in 1..Len(item.link) :
                    item.link[i].type = "fulltext" /\ EndsWith(item.link[i].url, DotPdf)}
    IN  IF hits = {} THEN None
        ELSE item.link[CHOOSE i \in hits : \A j \in hits : i <= j].url

\* Lines 170-183: one stub per item that has a PDF link.
DoajAppended(items) ==
    LET hits == SelectSeq(items, LAMBDA it : DoajPdfUrl(it) # None)
    IN  [k \in 1..Len(hits) |-> Stub(hits[k].title, DoajPdfUrl(hits[k]))]

\* The answers to the request for page pg.  On the pages after OddPages a
\* page that does not end the results is a page of page_size articles with
\* PDF links; up to OddPages it may also be over-full or hold articles
\* without one.
OddPages == 1

DoajResponses(pg) ==
    LET all == Responses(page_size, DoajGood, {DoajHtml})
                   \cup {[ok |-> TRUE, items |-> Page(page_size, DoajHtml)]}
    IN  IF pg <= OddPages THEN all
        ELSE {r \in all : \/ ~r.ok
                          \/ Len(r.items) < page_size
                          \/ r.items = Page(page_size, DoajGood)}

\* The ceiling tested one page late.
PastCeilingLate(pg) == pg > DoajPageCeiling + 1

\* `if page > 50` (line 191)
PastCeiling(pg) == pg > DoajPageCeiling

\* `return papers` (line 198): max_results is not used.
DoajResult(ps, cap) == ps

DoajBegin ==
    /\ adapter = "DOAJ" /\ searchPc = "begin"
    /\ max_results' = argCap
    /\ papers' = <<>>
    /\ cursor' = 1
    /\ current_batch' = page_size
    /\ searchPc' = "get"
    /\ UNCHANGED <<adapter, argCap, entries, trace, result, sanVars, pipeVars>>

\* The request and the handling of its answer (lines 158-188, 194-196).
DoajGet ==
    /\ adapter = "DOAJ" /\ searchPc = "get"
    /\ \E resp \in DoajResponses(cursor) :
          /\ trace' = Append(trace, Get(page_size, resp))
          /\ entries' = resp.items
          /\ IF ~resp.ok \/ resp.items = <<>>
             THEN /\ searchPc' = "return"
                  /\ UNCHANGED <<papers, cursor>>
             ELSE /\ papers' = papers \o DoajAppended(resp.items)
                  /\ IF ShortPage(Len(resp.items), page_size)
                     THEN /\ searchPc' = "return"
                          /\ UNCHANGED cursor
                     ELSE /\ cursor' = cursor + 1
                          /\ searchPc' = "sleep"
    /\ UNCHANGED <<adapter, argCap, max_results, current_batch, result, sanVars, pipeVars>>

\* time.sleep(1) and the page ceiling (lines 189-192).
DoajSleep ==
    /\ adapter = "DOAJ" /\ searchPc = "sleep"
    /\ trace' = Append(trace, Sleep)
    /\ searchPc' = IF PastCeiling(cursor) THEN "return" ELSE "get"
    /\ UNCHANGED <<adapter, argCap, max_results, papers, cursor, current_batch,
                   entries, result, sanVars, pipeVars>>

DoajReturn ==
    /\ adapter = "DOAJ" /\ searchPc = "return"
    /\ result' = DoajResult(papers, max_results)
    /\ searchPc' = "returned"
    /\ UNCHANGED <<adapter, argCap, max_results, papers, cursor, current_batch,
                   entries, trace, sanVars, pipeVars>>

\* ---- search_pmc (lines 200-249)

PmcDefaultCap == 50

\* "https://www.ncbi.nlm.nih.gov/pmc/articles/"
PmcUrlHead == <<104, 116, 116, 112, 115, 58, 47, 47, 119, 119, 119, 46, 110, 99,
                98, 105, 46, 110, 108, 109, 46, 110, 105, 104, 46, 103, 111, 118,
                47, 112, 109, 99, 47, 97, 114, 116, 105, 99, 108, 101, 115, 47>>
\* "/pdf/"
PmcUrlTail == <<47, 112, 100, 102, 47>>

\* Line 239.
PmcUrl(pmcid) == PmcUrlHead \o pmcid \o PmcUrlTail

\* A uid of the summary: whether result[uid] exists (line 234 raises when it
\* does not), its title and its pmcid ("PMC7", or None).
PmcGood == [known |-> TRUE, title |-> <<84>>, pmcid |-> <<80, 77, 67, 55>>]
PmcNoId == [known |-> TRUE, title |-> <<84>>, pmcid |-> None]
PmcUnknown == [known |-> FALSE, title |-> <<84>>, pmcid |-> None]

\* An id of the idlist of the esearch answer.
PmcUid == [uid |-> <<55>>]

\* Lines 232-245: one stub per uid with a pmcid.
PmcPapers(uids) ==
    LET hits == SelectSeq(uids, LAMBDA u : u.pmcid # None)
    IN  [k \in 1..Len(hits) |-> Stub(hits[k].title, PmcUrl(hits[k].pmcid))]

PmcRaises(uids) == \E i \in 1..Len(uids) : ~uids[i].known

\* The first request: esearch (lines 210-220).
PmcSearch ==
    /\ adapter = "PMC" /\ searchPc = "begin"
    /\ max_results' = IF argCap = NoCap THEN PmcDefaultCap ELSE argCap
    /\ \E resp \in Responses(max_results', PmcUid, {}) :
          /\ trace' = <<Get(max_results', resp)>>
          /\ IF ~resp.ok \/ resp.items = <<>>
             THEN /\ result' = <<>>
                  /\ searchPc' = "returned"
                  /\ UNCHANGED <<entries, current_batch>>
             ELSE /\ entries' = Prefix(resp.items, max_results')
                  /\ current_batch' = Len(entries')
                  /\ searchPc' = "summary"
                  /\ UNCHANGED result
    /\ UNCHANGED <<adapter, argCap, papers, cursor, sanVars, pipeVars>>

\* The second request: esummary, and the loop over its uids (lines 227-249).
PmcSummary ==
    /\ adapter = "PMC" /\ searchPc = "summary"
    /\ \E resp \in Responses(current_batch, PmcGood, {PmcNoId, PmcUnknown}) :
          /\ trace' = IF resp.ok /\ PmcRaises(resp.items)
                       THEN trace \o <<Get(current_batch, resp), Raise>>
                       ELSE Append(trace, Get(current_batch, resp))
          /\ entries' = resp.items
          /\ IF ~resp.ok \/ PmcRaises(resp.items)
             THEN /\ result' = <<>>
                  /\ UNCHANGED papers
             ELSE /\ papers' = PmcPapers(resp.items)
                  /\ result' = papers'
    /\ searchPc' = "returned"
    /\ UNCHANGED <<adapter, argCap, max_results, cursor, current_batch, sanVars, pipeVars>>

\* ---- search_plos (lines 251-282)

PlosDefaultCap == 30

\* "https://journals.plos.org/plosone/article/file?id="
PlosUrlHead == <<104, 116, 116, 112, 115, 58, 47, 47, 106, 111, 117, 114, 110, 97,
                 108, 115, 46, 112, 108, 111, 115, 46, 111, 114, 103, 47, 112, 108,
                 111, 115, 111, 110, 101, 47, 97, 114, 116, 105, 99, 108, 101, 47,
                 102, 105, 108, 101, 63, 105, 100, 61>>
\* "&type=printable"
PlosUrlTail == <<38, 116, 121, 112, 101, 61, 112, 114, 105, 110, 116, 97, 98, 108, 101>>

\* Line 272.
PlosUrl(doc_id) == PlosUrlHead \o doc_id \o PlosUrlTail

\* A document of the answer: its title and its id ("10.1371/x", or None).
PlosGood == [title |-> <<84>>, id |-> <<49, 48, 46, 49, 51, 55, 49, 47, 120>>]
PlosNoId == [title |-> <<84>>, id |-> None]

\* Lines 266-278: one stub per document with an id.
PlosPapers(docs) ==
    LET hits == SelectSeq(docs, LAMBDA d : d.id # None)
    IN  [k \in 1..Len(hits) |-> Stub(hits[k].title, PlosUrl(hits[k].id))]

PlosSearch ==
    /\ adapter = "PLOS" /\ searchPc = "begin"
    /\ max_results' = IF argCap = NoCap THEN PlosDefaultCap ELSE argCap
    /\ \E resp \in Responses(max_results', PlosGood, {PlosNoId}) :
          /\ trace' = <<Get(max_results', resp)>>
          /\ entries' = resp.items
          /\ IF ~resp.ok
             THEN /\ result' = <<>>
                  /\ UNCHANGED papers
             ELSE /\ papers' = PlosPapers(resp.items)
                  /\ result' = papers'
    /\ searchPc' = "returned"
    /\ UNCHANGED <<adapter, argCap, cursor, current_batch, sanVars, pipeVars>>

\* ---- SpecSearch: one call of one adapter

InitSearch ==
    /\ adapter \in Adapters
    /\ argCap \in SearchCaps
    /\ max_results = argCap
    /\ papers = <<>>
    /\ cursor = 0
    /\ current_batch = 0
    /\ entries = <<>>
    /\ trace = <<>>
    /\ result = <<>>
    /\ searchPc = "begin"
    /\ SanIdle
    /\ PipeIdle

NextSearch ==
    \/ ArxivBegin \/ ArxivWhile \/ ArxivGet \/ ArxivSleep \/ ArxivReturn
    \/ DoajBegin \/ DoajGet \/ DoajSleep \/ DoajReturn
    \/ PmcSearch \/ PmcSummary
    \/ PlosSearch

SpecSearch == InitSearch /\ [][NextSearch]_vars

\* An adapter is a sequential function whose requests carry a timeout
\* (timeout=30): each of its steps ends and the next one is taken.
\* search_doaj, which never reads max_results, is called the way
\* download_papers calls it (line 330): without it.
InitSearchFair == InitSearch /\ (adapter = "DOAJ" => argCap = NoCap)

SpecSearchFair == InitSearchFair /\ [][NextSearch]_vars /\ WF_vars(NextSearch)

\* The requests of the call so far, in order.
Gets == SelectSeq(trace, LAMBDA e : e.op = "get")

\* C9: for every adapter and every requested cap, the number of stubs the
\* adapter returns never exceeds the requested cap.
C9_ResultWithinCap ==
    (searchPc = "returned" /\ argCap # NoCap) => Len(result) <= argCap

\* C10: in search_arxiv and search_doaj no request follows a page that held
\* fewer items than were asked for (a page with no item included), and
\* search_doaj returns the empty sequence after exactly one request when its
\* first page holds no result.
C10_HaltsAtShortPage ==
    adapter \in {"arXiv", "DOAJ"} =>
        /\ \A k \in 1..Len(Gets) :
              (Gets[k].ok /\ Gets[k].got < Gets[k].asked) => k = Len(Gets)
        /\ (/\ adapter = "DOAJ"
            /\ searchPc = "returned"
            /\ Gets[1].ok
            /\ Gets[1].got = 0) => (result = <<>> /\ Len(Gets) = 1)

\* A call that returned after a full page and then a short one.
C10_Witness ==
    /\ adapter \in {"arXiv", "DOAJ"}
    /\ searchPc = "returned"
    /\ Len(Gets) = 2
    /\ Gets[1].ok /\ Gets[1].got >= Gets[1].asked
    /\ Gets[2].ok /\ Gets[2].got < Gets[2].asked /\ Gets[2].got > 0

(***************************************************************************)
(* download_papers (lines 303-406) and the functions it calls.             *)
(***************************************************************************)

\* `sub in s`
Contains(s, sub) ==
    \E k \in 1..(Len(s) - Len(sub) + 1) : SubSeq(s, k, k + Len(sub) - 1) = sub

\* s.replace(old, new): every occurrence, left to right.
RECURSIVE Replace(_, _, _)
Replace(s, old, new) ==
    IF Len(s) < Len(old) THEN s
    ELSE IF SubSeq(s, 1, Len(old)) = old
         THEN new \o Replace(SubSeq(s, Len(old) + 1, Len(s)), old, new)
         ELSE <<Head(s)>> \o Replace(Tail(s), old, new)

\* str(n) for n >= 0
RECURSIVE Decimal(_)
Decimal(n) == IF n < 10 THEN <<48 + n>> ELSE Decimal(n \div 10) \o <<48 + (n % 10)>>

\* The case left as it is.
UpperNot(s) == s

\* s.upper() (ASCII letters)
Upper(s) == [k \in 1..Len(s) |-> IF s[k] \in 97..122 THEN s[k] - 32 ELSE s[k]]

\* os.path.join(a, b) for a relative b
Join(a, b) == a \o <<47>> \o b

\* Only None taken as absent.
FalsyNoneOnly(x) == x = None

\* `if not x` for a text or None
Falsy(x) == x = None \/ x = <<>>

\* BASE_DOWNLOAD_FOLDER, "Research Papers" (line 416)
base_folder == <<82, 101, 115, 101, 97, 114, 99, 104, 32, 80, 97, 112, 101, 114, 115>>

\* `sources` (lines 317-323): the names, in order.
sources == << <<97, 114, 88, 105, 118>>,      \* "arXiv"
              <<68, 79, 65, 74>>,             \* "DOAJ"
              <<80, 77, 67>>,                 \* "PMC"
              <<80, 76, 79, 83>> >>           \* "PLOS"

\* Lines 306-307.
query_folder(q) == Join(base_folder, sanitize_filename(q))

\* The enumerate index used as it is.
RankZeroBased(n) == n

\* The rank the file name carries for enumerate index n (line 348: i+1).
Rank(n) == n + 1

\* Line 348: f"{source_name}_{i+1}_{sanitize_filename(title)}.pdf"
FileName(source_name, n, title) ==
    source_name \o <<95>> \o Decimal(Rank(n)) \o <<95>> \o sanitize_filename(title) \o DotPdf

\* Line 349.
FilePath(q, source_name, n, title) == Join(query_folder(q), FileName(source_name, n, title))

\* The existence test left out.
ExistsNever(fs, path) == FALSE

\* Line 352: os.path.exists(filepath)
Exists(fs, path) == path \in fs

ArxivHost == <<97, 114, 120, 105, 118, 46, 111, 114, 103>>     \* "arxiv.org"
AbsPart == <<47, 97, 98, 115, 47>>                             \* "/abs/"
PdfPart == <<47, 112, 100, 102, 47>>                           \* "/pdf/"

\* The retry limited to abstract-page URLs.
TryModifiedUrlAbsOnly(pdf_url) == Contains(pdf_url, ArxivHost) /\ Contains(pdf_url, AbsPart)

\* Line 369: whether a failed download is tried again on the modified URL.
TryModifiedUrl(pdf_url) == Contains(pdf_url, ArxivHost) /\ ~EndsWith(pdf_url, DotPdf)

\* Line 370.
ModifiedUrl(pdf_url) == Replace(pdf_url, AbsPart, PdfPart) \o DotPdf

\* ---- download_file (lines 26-36)
\* The answer to a GET: a failure (transport error or timeout, error status),
\* or the body.  A body is either no PDF at all or a PDF with its pages' texts.
NotPdf == [pdf |-> FALSE, pages |-> <<>>]
Pdf(pages) == [pdf |-> TRUE, pages |-> pages]

Bodies ==
    { NotPdf,
      Pdf(<<>>),
      Pdf(<< <<120>> >>),
      Pdf(<< <<49>>, <<50>>, <<51>>, <<52>>, <<53>>, <<54>> >>) }

FetchResponses ==
    {[ok |-> FALSE, why |-> w, body |-> NotPdf] : w \in {"transport", "status"}}
        \cup {[ok |-> TRUE, why |-> "", body |-> b] : b \in Bodies}

\* What download_file returns: <<success, local path>>.
DownloadOutcome(resp, filepath) ==
    IF resp.ok THEN <<TRUE, filepath>> ELSE <<FALSE, None>>

\* The file opened before the request is made: it is there on failure too.
DownloadWritesAlways(fs, resp, filepath) == fs \cup {filepath}

\* The file system after download_file: the file is written on success only.
DownloadWrites(fs, resp, filepath) == IF resp.ok THEN fs \cup {filepath} ELSE fs

\* ---- extract_pdf_text (lines 38-52)
PagesToRead == 5
ExcerptLimit == 5000

RECURSIVE PageTexts(_, _)
PageTexts(pages, n) ==
    IF n = 0 THEN <<>> ELSE PageTexts(pages, n - 1) \o pages[n] \o <<10>>

extract_pdf_text(body) ==
    IF ~body.pdf THEN <<>>
    ELSE Prefix(PageTexts(body.pages, Min(PagesToRead, Len(body.pages))), ExcerptLimit)

\* ---- check_relevance_with_llm (lines 54-86)
\* The answer of the judge endpoint: a failure of the request (transport
\* error or timeout, error status), a body that is no JSON object, a JSON
\* object without "response", or one with the text of "response".
Yes == <<89, 69, 83>>                                          \* "YES"

JudgeResponses ==
    {[kind |-> k, text |-> <<>>] : k \in {"transport", "status", "malformed", "nokey"}}
        \cup {[kind |-> "answer", text |-> a] :
                a \in { <<89, 69, 83>>,            \* "YES"
                        <<32, 121, 101, 115, 10>>, \* " yes\n"
                        <<89, 101, 115>>,          \* "Yes"
                        <<78, 79>>,                \* "NO"
                        <<89, 69, 83, 46>>,        \* "YES."
                        <<121, 101, 115, 44, 32, 98>>,   \* "yes, b"
                        <<121, 32, 101, 115>>,     \* "y es"
                        <<>> }}

\* A judge that fails open.
OnJudgeFailureOpen == TRUE

\* What the call returns on a failed request or an unusable body (line 86).
OnJudgeFailure == FALSE

check_relevance_with_llm(resp) ==
    IF resp.kind \in {"transport", "status", "malformed"} THEN OnJudgeFailure
    ELSE Upper(Strip(resp.text)) = Yes

\* ---- log_rejection (lines 88-98)
\* A record that is in the log already is not written again.
log_rejection_once(log, fname, q, url, reason, ok) ==
    LET rec == [filename |-> fname, query |-> q, url |-> url, reason |-> reason]
    IN  IF ok /\ (\A k \in 1..Len(log) : log[k] # rec) THEN Append(log, rec) ELSE log

\* The log opened for writing instead of appending.
log_rejection_rewriting(log, fname, q, url, reason, ok) ==
    IF ok THEN <<[filename |-> fname, query |-> q, url |-> url, reason |-> reason]>>
    ELSE log

\* ok: whether the log could be opened and written; when it could not, the
\* exception is caught (lines 97-98) and the log is as it was.
log_rejection(log, fname, q, url, reason, ok) ==
    IF ok THEN Append(log, [filename |-> fname, query |-> q, url |-> url, reason |-> reason])
    ELSE log

\* ---- the environment of download_papers

\* The number of invocations of download_papers for the query.
MaxRuns == 2

Queries == { <<113>>,                  \* "q"
             <<97, 58, 98>> }          \* "a:b"

TitleT == <<84>>                       \* "T"
TitleAB == <<65, 58, 32, 66>>          \* "A: B"

\* "http://arxiv.org/abs/1234"
UrlAbs == <<104, 116, 116, 112, 58, 47, 47, 97, 114, 120, 105, 118, 46, 111, 114,
            103, 47, 97, 98, 115, 47, 49, 50, 51, 52>>
\* "http://arxiv.org/pdf/1234v1"
UrlPdf == <<104, 116, 116, 112, 58, 47, 47, 97, 114, 120, 105, 118, 46, 111, 114,
            103, 47, 112, 100, 102, 47, 49, 50, 51, 52, 118, 49>>
\* "http://arxiv.org/pdf/1234.pdf"
UrlPdfExt == <<104, 116, 116, 112, 58, 47, 47, 97, 114, 120, 105, 118, 46, 111, 114,
               103, 47, 112, 100, 102, 47, 49, 50, 51, 52, 46, 112, 100, 102>>
\* "https://doaj.example/a.pdf"
UrlDoaj == <<104, 116, 116, 112, 115, 58, 47, 47, 100, 111, 97, 106, 46, 101, 120,
             97, 109, 112, 108, 101, 47, 97, 46, 112, 100, 102>>

StubAbs == Stub(TitleAB, UrlAbs)
StubPdf == Stub(TitleT, UrlPdf)
StubPdfExt == Stub(TitleT, UrlPdfExt)
StubNoUrl == Stub(TitleT, <<>>)
StubDoaj == Stub(TitleT, UrlDoaj)
StubPmc == Stub(TitleT, PmcUrl(PmcGood.pmcid))
StubPlos == Stub(TitleT, PlosUrl(PlosGood.id))

\* What the four searches return for the query, by position in `sources`.
\* The URL shapes are those the adapters produce (an arXiv href may be
\* empty); a source may return nothing.
Backends ==
    { << <<>>, <<>>, <<>>, <<>> >>,
      << <<StubAbs>>, <<>>, <<>>, <<>> >>,
      << <<StubPdf, StubPdfExt>>, <<StubDoaj>>, <<>>, <<>> >>,
      << <<StubNoUrl, StubAbs>>, <<>>, <<StubPmc>>, <<>> >>,
      << <<>>, <<StubDoaj>>, <<StubPmc>>, <<StubPlos>> >> }

\* ---- the locals of the loop body (lines 341-349)

paper == srcPapers[idx + 1]
title == paper.title
pdf_url == paper.pdf_url
source_name == sources[source]
filepath == FilePath(query, source_name, idx, title)

Did(cnd, op, arg, ok) == [cnd EXCEPT !.ops = Append(@, [op |-> op, arg |-> arg, ok |-> ok])]

\* The test of the excerpt left out: the judge is asked whatever was extracted.
HasTextAlways(text) == TRUE

\* `if pdf_text:` (line 380)
HasText(text) == text # <<>>

\* The removal left out.
RemoveNothing(fs, path) == fs

\* os.remove(temp_filepath) (line 388)
Remove(fs, path) == fs \ {path}

\* An empty source ends the run.
AfterSourceStops == "total"

\* After the last statement of a source's pass: the next source, or the totals.
AfterSource == IF source < Len(sources) THEN "search" ELSE "total"

\* Whether open(rejection_log_path, 'a') and the writes succeed (line 91).
LogWritable == ~logFaults

\* The stub at the loop index has reached the disposition disp.
End(disp) == ended \cup {<<runs, source, idx, disp>>}

\* The delay left out.
SleptNot(cnd) == cnd

\* time.sleep(2) (line 400), recorded in the candidate's history.
Slept(cnd) == Did(cnd, "sleep", <<>>, TRUE)

\* The total overwritten by the count of the source.
AccumulateLast(total, count) == count

\* Lines 402-403: total += count
Accumulate(total, count) == total + count

InitPipeline ==
    /\ query \in Queries
    /\ backend \in Backends
    /\ runs = 0
    /\ pc = "idle"
    /\ source = 0
    /\ srcPapers = <<>>
    /\ idx = 0
    /\ files = {}
    /\ content = NotPdf
    /\ ledger = <<>>
    /\ downloaded_count = 0
    /\ rejected_count = 0
    /\ total_downloaded = 0
    /\ total_rejected = 0
    /\ pdf_text = <<>>
    /\ cand = NoCand
    /\ kept = {}
    /\ searched = <<>>
    /\ ended = {}
    /\ snapshot = <<>>
    /\ SanIdle
    /\ SearchIdle

Init == InitPipeline /\ logFaults = FALSE

\* download_papers is called (lines 303-326).
Invoke ==
    /\ pc = "idle"
    /\ runs < MaxRuns
    /\ runs' = runs + 1
    /\ total_downloaded' = 0
    /\ total_rejected' = 0
    /\ source' = 1
    /\ searched' = <<>>
    /\ pc' = "search"
    /\ UNCHANGED <<query, backend, srcPapers, idx, files, content, ledger,
                   downloaded_count, rejected_count, pdf_text, cand, kept,
                   logFaults, ended, snapshot, sanVars, searchVars>>

\* papers = search_func(query) and the test for no papers (lines 328-338).
Search ==
    /\ pc = "search"
    /\ srcPapers' = backend[source]
    /\ searched' = Append(searched, source)
    /\ IF srcPapers' = <<>>
       THEN /\ pc' = AfterSource
            /\ source' = IF source < Len(sources) THEN source + 1 ELSE source
            /\ UNCHANGED <<downloaded_count, rejected_count, idx>>
       ELSE /\ downloaded_count' = 0
            /\ rejected_count' = 0
            /\ idx' = 0
            /\ pc' = "candidate"
            /\ UNCHANGED source
    /\ UNCHANGED <<query, backend, runs, files, content, ledger, total_downloaded,
                   total_rejected, pdf_text, cand, kept, logFaults, ended, snapshot,
                   sanVars, searchVars>>

\* The head of the loop body: a stub without URL is passed over, a candidate
\* whose file exists is counted, any other is downloaded (lines 340-362).
Candidate ==
    /\ pc = "candidate"
    /\ idx < Len(srcPapers)
    /\ LET fresh == [NoCand EXCEPT !.id = <<source, idx>>,
                                   !.count0 = downloaded_count,
                                   !.rej0 = rejected_count,
                                   !.ledger0 = Len(ledger)]
       IN  IF Falsy(pdf_url)
           THEN /\ cand' = [fresh EXCEPT !.disp = "dropped"]
                /\ ended' = End("dropped")
                /\ idx' = idx + 1
                /\ UNCHANGED <<pc, downloaded_count, kept>>
           ELSE IF Exists(files, filepath)
           THEN /\ cand' = [fresh EXCEPT !.disp = "exists"]
                /\ ended' = End("exists")
                /\ downloaded_count' = downloaded_count + 1
                /\ kept' = kept \cup {<<runs, source, idx>>}
                /\ idx' = idx + 1
                /\ UNCHANGED pc
           ELSE /\ cand' = fresh
                /\ pc' = "fetch"
                /\ UNCHANGED <<idx, downloaded_count, kept, ended>>
    /\ UNCHANGED <<query, backend, runs, source, srcPapers, files, content, ledger,
                   rejected_count, total_downloaded, total_rejected, pdf_text,
                   logFaults, searched, snapshot, sanVars, searchVars>>

\* download_file(pdf_url, filepath, headers) (lines 365-369).
Fetch ==
    /\ pc = "fetch"
    /\ \E resp \in FetchResponses :
          LET out == DownloadOutcome(resp, filepath)
          IN  /\ files' = DownloadWrites(files, resp, filepath)
              /\ content' = IF resp.ok THEN resp.body ELSE content
              /\ cand' = [Did(cand, "fetch", pdf_url, resp.ok) EXCEPT !.outcome = out]
              /\ pc' = IF out[1] THEN "extract"
                       ELSE IF TryModifiedUrl(pdf_url) THEN "fetch_modified"
                       ELSE "failed"
    /\ UNCHANGED <<query, backend, runs, source, srcPapers, idx, ledger,
                   downloaded_count, rejected_count, total_downloaded,
                   total_rejected, pdf_text, kept, logFaults, searched, ended,
                   snapshot, sanVars, searchVars>>

\* download_file(modified_url, filepath, headers) (lines 370-373).
FetchModified ==
    /\ pc = "fetch_modified"
    /\ \E resp \in FetchResponses :
          LET out == DownloadOutcome(resp, filepath)
          IN  /\ files' = DownloadWrites(files, resp, filepath)
              /\ content' = IF resp.ok THEN resp.body ELSE content
              /\ cand' = [Did(cand, "fetch", ModifiedUrl(pdf_url), resp.ok)
                             EXCEPT !.outcome = out]
              /\ pc' = IF out[1] THEN "extract" ELSE "failed"
    /\ UNCHANGED <<query, backend, runs, source, srcPapers, idx, ledger,
                   downloaded_count, rejected_count, total_downloaded,
                   total_rejected, pdf_text, kept, logFaults, searched, ended,
                   snapshot, sanVars, searchVars>>

\* extract_pdf_text(temp_filepath); an empty excerpt keeps the file
\* (lines 375-380, 392-395).
Extract ==
    /\ pc = "extract"
    /\ pdf_text' = extract_pdf_text(content)
    /\ IF HasText(pdf_text')
       THEN /\ pc' = "judge"
            /\ cand' = Did(cand, "extract", pdf_text', TRUE)
            /\ UNCHANGED <<downloaded_count, kept, ended>>
       ELSE /\ downloaded_count' = downloaded_count + 1
            /\ kept' = kept \cup {<<runs, source, idx>>}
            /\ ended' = End("kept")
            /\ cand' = [Did(cand, "extract", pdf_text', TRUE) EXCEPT !.disp = "kept"]
            /\ pc' = "sleep"
    /\ UNCHANGED <<query, backend, runs, source, srcPapers, idx, files, content,
                   ledger, rejected_count, total_downloaded, total_rejected,
                   logFaults, searched, snapshot, sanVars, searchVars>>

\* check_relevance_with_llm(query, title, pdf_text) and what follows from
\* its verdict (lines 381-391).
Judge ==
    /\ pc = "judge"
    /\ \E resp \in JudgeResponses :
          LET is_relevant == check_relevance_with_llm(resp)
              wrote == LogWritable
              judged == [Did(cand, "judge", resp.text, TRUE)
                            EXCEPT !.judge = resp.kind, !.verdict = is_relevant]
          IN  IF is_relevant
              THEN /\ downloaded_count' = downloaded_count + 1
                   /\ kept' = kept \cup {<<runs, source, idx>>}
                   /\ ended' = End("kept")
                   /\ cand' = [judged EXCEPT !.disp = "kept"]
                   /\ UNCHANGED <<files, ledger, rejected_count>>
              ELSE /\ files' = Remove(files, cand.outcome[2])
                   /\ ledger' = log_rejection(ledger, FileName(source_name, idx, title),
                                              query, pdf_url, "Not relevant to query", wrote)
                   /\ rejected_count' = rejected_count + 1
                   /\ ended' = End("rejected")
                   /\ cand' = [Did(Did(judged, "remove", cand.outcome[2], TRUE),
                                   "log", pdf_url, wrote) EXCEPT !.disp = "rejected"]
                   /\ UNCHANGED <<downloaded_count, kept>>
    /\ pc' = "sleep"
    /\ UNCHANGED <<query, backend, runs, source, srcPapers, idx, content,
                   total_downloaded, total_rejected, pdf_text, logFaults, searched,
                   snapshot, sanVars, searchVars>>

\* The download failed: the rejection is logged (lines 396-398).
LogFailed ==
    /\ pc = "failed"
    /\ ledger' = log_rejection(ledger, FileName(source_name, idx, title),
                               query, pdf_url, "Download failed", LogWritable)
    /\ cand' = [Did(cand, "log", pdf_url, LogWritable) EXCEPT !.disp = "failed"]
    /\ ended' = End("failed")
    /\ pc' = "sleep"
    /\ UNCHANGED <<query, backend, runs, source, srcPapers, idx, files, content,
                   downloaded_count, rejected_count, total_downloaded,
                   total_rejected, pdf_text, kept, logFaults, searched, snapshot,
                   sanVars, searchVars>>

\* time.sleep(2), then the next candidate (line 400).  The excerpt and the
\* downloaded content are not read again: the model forgets them here.
Delay ==
    /\ pc = "sleep"
    /\ cand' = Slept(cand)
    /\ idx' = idx + 1
    /\ pc' = "candidate"
    /\ content' = NotPdf
    /\ pdf_text' = <<>>
    /\ UNCHANGED <<query, backend, runs, source, srcPapers, files, ledger,
                   downloaded_count, rejected_count, total_downloaded,
                   total_rejected, kept, logFaults, searched, ended, snapshot,
                   sanVars, searchVars>>

\* The candidates of the source are exhausted (lines 402-404).
EndSource ==
    /\ pc = "candidate"
    /\ idx = Len(srcPapers)
    /\ total_downloaded' = Accumulate(total_downloaded, downloaded_count)
    /\ total_rejected' = Accumulate(total_rejected, rejected_count)
    /\ cand' = NoCand
    /\ pc' = AfterSource
    /\ source' = IF source < Len(sources) THEN source + 1 ELSE source
    /\ UNCHANGED <<query, backend, runs, srcPapers, idx, files, content, ledger,
                   downloaded_count, rejected_count, pdf_text, kept, logFaults,
                   searched, ended, snapshot, sanVars, searchVars>>

\* The totals are printed and download_papers returns (line 406).
Total ==
    /\ pc = "total"
    /\ pc' = "idle"
    /\ snapshot' = Append(snapshot, files)
    /\ UNCHANGED <<query, backend, runs, source, srcPapers, idx, files, content,
                   ledger, downloaded_count, rejected_count, total_downloaded,
                   total_rejected, pdf_text, cand, kept, logFaults, searched, ended,
                   sanVars, searchVars>>

Next ==
    \/ Invoke \/ Search \/ Candidate \/ Fetch \/ FetchModified \/ Extract
    \/ Judge \/ LogFailed \/ Delay \/ EndSource \/ Total

Spec == Init /\ [][Next]_vars

\* ---- SpecFaults: download_papers for the query "q" when the rejection log
\* cannot be written (a fault of the log's folder or disk, which lasts).
\* The steps of one invocation are sequential statements, each of
\* which ends (every request carries a timeout): once started, an invocation
\* goes on.  Whether download_papers is invoked again is up to the caller.
InitFaults == InitPipeline /\ query = <<113>> /\ logFaults = TRUE

Running ==
    \/ Search \/ Candidate \/ Fetch \/ FetchModified \/ Extract
    \/ Judge \/ LogFailed \/ Delay \/ EndSource \/ Total

SpecFaults == InitFaults /\ [][Next]_vars /\ WF_vars(Running)

\* ---- SpecAdaptersAndPipeline: one call of an adapter, or download_papers.
InitAdaptersAndPipeline == InitSearch \/ Init

NextAdaptersAndPipeline == NextSearch \/ Next

SpecAdaptersAndPipeline == InitAdaptersAndPipeline /\ [][NextAdaptersAndPipeline]_vars

(***************************************************************************)
(* The dispositions of a candidate.                                        *)
(***************************************************************************)

Active == cand.id # <<0, 0>>
OpsOf(name) == SelectSeq(cand.ops, LAMBDA e : e.op = name)
Fetches == OpsOf("fetch")
CandStub == srcPapers[cand.id[2] + 1]
CandFileName == FileName(sources[cand.id[1]], cand.id[2], CandStub.title)
CandPath == FilePath(query, sources[cand.id[1]], cand.id[2], CandStub.title)
LastRecord == ledger[Len(ledger)]
LastFetchFailed == Fetches # <<>> /\ ~Fetches[Len(Fetches)].ok
EmptyExcerpt == \E k \in 1..Len(cand.ops) : cand.ops[k].op = "extract" /\ cand.ops[k].arg = <<>>
Judged == OpsOf("judge") # <<>>

\* C1 (fail-open): a candidate whose download succeeded and whose excerpt is
\* empty is kept: its file is at the target path, nothing is appended to the
\* ledger, the kept count is one higher, and the judge was not called.
C1_FailOpen ==
    EmptyExcerpt =>
        /\ cand.disp = "kept"
        /\ CandPath \in files
        /\ Len(ledger) = cand.ledger0
        /\ downloaded_count = cand.count0 + 1
        /\ rejected_count = cand.rej0
        /\ OpsOf("judge") = <<>>
        /\ OpsOf("remove") = <<>>

C1_Witness ==
    /\ EmptyExcerpt
    /\ cand.disp = "kept"
    /\ cand.outcome[1]
    /\ pc = "sleep"

\* C2 (fail-closed): when the judge request fails (transport error or timeout,
\* error status, malformed body) check_relevance_with_llm returns false, and
\* the candidate, whose excerpt is not empty, ends rejected and not kept.
C2_FailClosed ==
    cand.judge \in {"transport", "status", "malformed", "nokey"} =>
        /\ ~cand.verdict
        /\ ~EmptyExcerpt
        /\ cand.disp = "rejected"
        /\ CandPath \notin files
        /\ downloaded_count = cand.count0
        /\ rejected_count = cand.rej0 + 1

C2_Witness ==
    /\ cand.judge = "transport"
    /\ cand.disp = "rejected"
    /\ OpsOf("extract") # <<>>
    /\ pc = "sleep"

\* C3: a candidate that was downloaded (by the first fetch or by the fallback
\* fetch), gave a non-empty excerpt and was judged not relevant has its file
\* removed, exactly one record with reason "Not relevant to query" appended
\* to the ledger, and the kept count unchanged.
C3_RejectedIrrelevant ==
    (Judged /\ ~cand.verdict) =>
        /\ cand.disp = "rejected"
        /\ CandPath \notin files
        /\ Len(ledger) = cand.ledger0 + 1
        /\ LastRecord = [filename |-> CandFileName, query |-> query,
                         url |-> CandStub.pdf_url, reason |-> "Not relevant to query"]
        /\ Len(OpsOf("log")) = 1
        /\ downloaded_count = cand.count0

\* The scenario of the fallback fetch: the first fetch failed, the second
\* succeeded, the judge answered and the answer is not "yes".
C3_Witness ==
    /\ Judged /\ ~cand.verdict /\ cand.judge = "answer"
    /\ Len(Fetches) = 2 /\ ~Fetches[1].ok /\ Fetches[2].ok
    /\ cand.disp = "rejected"
    /\ pc = "sleep"

\* C4: when the fetch of a candidate fails (the fallback fetch too, when one
\* is made), download_file reports no success and no path, no file is at the
\* destination path, neither extraction nor the judge is run, and exactly
\* one record with reason "Download failed" is appended.
C4_DownloadFailed ==
    /\ LastFetchFailed =>
          /\ cand.outcome = <<FALSE, None>>
          /\ CandPath \notin files
          /\ OpsOf("extract") = <<>>
          /\ OpsOf("judge") = <<>>
          /\ pc \in {"fetch_modified", "failed"} \/ cand.disp = "failed"
    /\ cand.disp = "failed" =>
          /\ LastFetchFailed
          /\ Len(ledger) = cand.ledger0 + 1
          /\ LastRecord = [filename |-> CandFileName, query |-> query,
                           url |-> CandStub.pdf_url, reason |-> "Download failed"]
          /\ Len(OpsOf("log")) = 1
          /\ downloaded_count = cand.count0
          /\ rejected_count = cand.rej0

C4_Witness ==
    /\ cand.disp = "failed"
    /\ Len(Fetches) = 2
    /\ pc = "sleep"

\* The fetching of the candidate is over.
FetchingDone == Active /\ Fetches # <<>> /\ pc # "fetch_modified"

AtMostOnce == \A name \in {"extract", "judge", "remove", "log", "sleep"} : Len(OpsOf(name)) <= 1

\* C5 as stated: a second fetch is issued if and only if the first fetch
\* failed and the URL is an arxiv.org URL containing /abs/; it goes to the
\* URL with /abs/ replaced by /pdf/ and .pdf appended; no candidate is fetched
\* more than twice and nothing else is retried.
C5_AsStated ==
    FetchingDone =>
        /\ Len(Fetches) <= 2
        /\ Len(Fetches) = 2 <=>
              (/\ ~Fetches[1].ok
               /\ Contains(CandStub.pdf_url, ArxivHost)
               /\ Contains(CandStub.pdf_url, AbsPart))
        /\ Fetches[1].arg = CandStub.pdf_url
        /\ Len(Fetches) = 2 =>
              Fetches[2].arg = Replace(CandStub.pdf_url, AbsPart, PdfPart) \o DotPdf
        /\ AtMostOnce

\* C5 as amended: a second fetch is issued if and only if the first download
\* failed and the URL contains "arxiv.org" and does not end in ".pdf"; it
\* goes to the URL with every /abs/ replaced by /pdf/ and .pdf appended; no
\* candidate is fetched more than twice and nothing else is retried.
C5_SingleFallback ==
    FetchingDone =>
        /\ Len(Fetches) <= 2
        /\ Len(Fetches) = 2 <=>
              (/\ ~Fetches[1].ok
               /\ Contains(CandStub.pdf_url, ArxivHost)
               /\ ~EndsWith(CandStub.pdf_url, DotPdf))
        /\ Fetches[1].arg = CandStub.pdf_url
        /\ Len(Fetches) = 2 =>
              Fetches[2].arg = Replace(CandStub.pdf_url, AbsPart, PdfPart) \o DotPdf
        /\ AtMostOnce

\* A second fetch for an arxiv.org URL that holds no /abs/.
C5_Witness ==
    /\ FetchingDone
    /\ Len(Fetches) = 2
    /\ ~Contains(CandStub.pdf_url, AbsPart)
    /\ Fetches[2].arg = UrlPdf \o DotPdf

\* C6: a candidate that was downloaded, gave a non-empty excerpt and was
\* judged relevant has its file at
\* <base_folder>/<sanitized query>/<source>_<1-based rank>_<sanitized title>.pdf,
\* no record appended to the ledger, and the kept count one higher.
C6_Kept ==
    (Judged /\ cand.verdict) =>
        /\ cand.disp = "kept"
        /\ ~EmptyExcerpt
        /\ (base_folder \o <<47>> \o sanitize_filename(query) \o <<47>>
              \o sources[cand.id[1]] \o <<95>> \o Decimal(cand.id[2] + 1) \o <<95>>
              \o sanitize_filename(CandStub.title) \o DotPdf) \in files
        /\ Len(ledger) = cand.ledger0
        /\ downloaded_count = cand.count0 + 1
        /\ rejected_count = cand.rej0

\* The query "a:b", the first arXiv result titled "A: B", kept after the
\* fallback fetch: the file is "Research Papers/a_b/arXiv_1_A_ B.pdf".
C6_Witness ==
    /\ Judged /\ cand.verdict /\ cand.disp = "kept"
    /\ Len(Fetches) = 2
    /\ query = <<97, 58, 98>>
    /\ CandStub = StubAbs
    /\ <<82, 101, 115, 101, 97, 114, 99, 104, 32, 80, 97, 112, 101, 114, 115, 47,
         97, 95, 98, 47, 97, 114, 88, 105, 118, 95, 49, 95, 65, 95, 32, 66,
         46, 112, 100, 102>> \in files

\* The candidate was kept (or found on disk) by an earlier run.
KeptBefore == Active /\ \E r \in 1..(runs - 1) : <<r, cand.id[1], cand.id[2]>> \in kept

\* C7: in a later run for the same query with the same source results, a
\* candidate whose file an earlier run kept causes no fetch, no extraction,
\* no judge call and no ledger append: it is only counted as kept.
C7_Idempotent ==
    KeptBefore =>
        /\ cand.ops = <<>>
        /\ cand.disp = "exists"
        /\ CandPath \in files
        /\ Len(ledger) = cand.ledger0
        /\ downloaded_count = cand.count0 + 1
        /\ rejected_count = cand.rej0

C7_Witness ==
    /\ KeptBefore
    /\ runs = 2
    /\ <<1, cand.id[1], cand.id[2]>> \in kept
    /\ cand.disp = "exists"

(***************************************************************************)
(* The adapters: failures, termination, delays.                            *)
(***************************************************************************)

\* A request of the call failed, or the handling of an answer raised.
SearchFailed ==
    \E k \in 1..Len(trace) :
        \/ trace[k].op = "raise"
        \/ trace[k].op = "get" /\ ~trace[k].ok

\* C11: for every adapter, when a page request or the handling of its answer
\* fails on any page (a page after pages that succeeded included), the
\* sequence the adapter returns is empty.
C11_FailureGivesEmpty ==
    (searchPc = "returned" /\ SearchFailed) => result = <<>>

\* C12: every call of an adapter returns, whatever the backend answers (full
\* and over-full pages included); search_doaj makes at most 50 page requests
\* and search_arxiv at most ceil(max_results / 100), which is at most 10
\* under the default cap of 1000.
C12_Terminates ==
    /\ [](adapter = "DOAJ" => Len(Gets) <= 50)
    /\ []((adapter = "arXiv" /\ searchPc # "begin") =>
              Len(Gets) <= (max_results + 99) \div 100)
    /\ []((adapter = "arXiv" /\ argCap = NoCap) => Len(Gets) <= 10)
    /\ <>(searchPc = "returned")

\* search_doaj returned after 50 requests, each answered with a full page.
C12_Witness ==
    /\ adapter = "DOAJ"
    /\ searchPc = "returned"
    /\ Len(Gets) = 50
    /\ \A k \in 1..50 : Gets[k].ok /\ Gets[k].got >= 100
    /\ Len(result) >= 4900

(***************************************************************************)
(* The ledger, the order of the pipeline, the delays, the counts.          *)
(***************************************************************************)

IsPrefix(s, t) == Len(s) <= Len(t) /\ SubSeq(t, 1, Len(s)) = s

\* The step ends the current candidate as rejected or as download-failed.
Rejects == cand.disp = "none" /\ cand'.disp \in {"rejected", "failed"}

\* C13: over any sequence of steps (candidates, sources, re-runs) the ledger
\* before a step is a prefix of the ledger after it; the ledger changes only
\* in a step that ends a candidate as rejected or as download-failed, and
\* every such step appends exactly one record, which holds the candidate's
\* file name, the query, its URL and the reason.  (One record of the model
\* stands for the five lines of lines 92-96, the separator line included.)
C13_AppendOnly ==
    [][/\ IsPrefix(ledger, ledger')
       /\ (ledger' # ledger) => Rejects
       /\ Rejects =>
            /\ Len(ledger') = Len(ledger) + 1
            /\ ledger'[Len(ledger')] =
                 [filename |-> source_name \o <<95>> \o Decimal(idx + 1) \o <<95>>
                                  \o sanitize_filename(title) \o DotPdf,
                  query |-> query,
                  url |-> pdf_url,
                  reason |-> IF cand'.disp = "rejected" THEN "Not relevant to query"
                             ELSE "Download failed"]]_vars

\* The second run has appended to the records of the first: the ledger holds
\* records of both reasons, the last one written in the second run.
C13_Witness ==
    /\ runs = 2
    /\ Len(ledger) >= 3
    /\ Len(ledger) > cand.ledger0
    /\ cand.ledger0 >= 2
    /\ \E j, k \in 1..Len(ledger) :
          ledger[j].reason = "Not relevant to query" /\ ledger[k].reason = "Download failed"

\* The names of the sources searched in this run, in the order of the searches.
SearchedNames == [k \in 1..Len(searched) |-> sources[searched[k]]]

\* "arXiv", "DOAJ", "PMC", "PLOS"
FourSources == << <<97, 114, 88, 105, 118>>, <<68, 79, 65, 74>>, <<80, 77, 67>>,
                  <<80, 76, 79, 83>> >>

\* download_papers is inside the loop over the papers of a source.
InSourcePass ==
    pc \in {"candidate", "fetch", "fetch_modified", "extract", "judge", "failed", "sleep"}

\* The dispositions recorded for stub j of source s in this run.
DispositionsOf(s, j) == {e[4] : e \in {x \in ended : x[1] = runs /\ x[2] = s /\ x[3] = j}}

\* Kept (judged relevant, kept by fail-open, or found on disk),
\* RejectedIrrelevant, RejectedDownloadFailed.
Terminal == {"kept", "exists", "rejected", "failed"}

\* Stub j of source s has exactly one disposition, a terminal one if and
\* only if it has a pdf_url.
Disposed(s, j) ==
    /\ Cardinality(DispositionsOf(s, j)) = 1
    /\ (backend[s][j + 1].pdf_url \notin {None, <<>>})
          <=> (DispositionsOf(s, j) \subseteq Terminal)

\* C14: within download_papers no failure of a search (a source that returns
\* nothing), of a fetch, of the extraction, of the judge call or of the ledger
\* write stops the run.  The sources searched are always a prefix of arXiv,
\* DOAJ, PMC, PLOS; every run that has started reaches its end; at its end
\* all four sources have been searched once and every stub of every source
\* has exactly one disposition, a terminal one if it had a pdf_url; and
\* whenever a candidate is started every stub before it has its disposition,
\* while the candidate has none before it is done.
C14_NoFatalPath ==
    /\ [](IsPrefix(SearchedNames, FourSources))
    /\ []<>(pc = "idle")
    /\ [](pc = "total" =>
            /\ SearchedNames = FourSources
            /\ \A s \in 1..4 : \A j \in 0..(Len(backend[s]) - 1) : Disposed(s, j))
    /\ [](InSourcePass =>
            /\ \A j \in 0..(idx - 1) : Disposed(source, j)
            /\ pc # "sleep" => DispositionsOf(source, idx) = {})

\* A run that reached its end although arXiv returned nothing, a download
\* failed and the ledger could not be written.
C14_Witness ==
    /\ pc = "total"
    /\ logFaults
    /\ backend[1] = <<>>
    /\ SearchedNames = FourSources
    /\ \E e \in ended : e[1] = runs /\ e[4] = "failed"
    /\ \E e \in ended : e[1] = runs /\ e[4] = "rejected"
    /\ ledger = <<>>

\* The step goes on to the next stub of the source.
NextStub == idx' = idx + 1

\* C15 as stated: within one source pass, the step from any candidate (a stub
\* with a pdf_url) to the next one is the delay, whatever the candidate's
\* outcome was (kept, rejected, download failed, already on disk).
C15_AsStated ==
    [][(NextStub /\ pdf_url \notin {None, <<>>}) =>
          (pc = "sleep" /\ cand'.ops # <<>> /\ cand'.ops[Len(cand'.ops)].op = "sleep")]_vars

\* C15 as amended: within one source pass, the step from a candidate that was
\* fetched (and ended kept, rejected or download-failed) to the next stub is
\* the delay; a candidate whose file is already on disk and a stub without
\* pdf_url are followed by no delay.
C15_DelayAfterFetched ==
    /\ [][NextStub =>
            IF pc = "sleep"
            THEN /\ cand.disp \in {"kept", "rejected", "failed"}
                 /\ Len(SelectSeq(cand.ops, LAMBDA e : e.op = "fetch")) >= 1
                 /\ cand'.ops # <<>> /\ cand'.ops[Len(cand'.ops)].op = "sleep"
            ELSE /\ pc = "candidate"
                 /\ pdf_url \in {None, <<>>} \/ filepath \in files
                 /\ cand'.disp \in {"dropped", "exists"}
                 /\ cand'.ops = <<>>]_vars
    /\ []((cand.disp \in {"kept", "rejected", "failed"} /\ pc # "sleep") =>
              cand.ops[Len(cand.ops)].op = "sleep")

\* The first candidate of the source was found on disk and the second is
\* about to be started: no delay was made.
C15_Witness ==
    /\ pc = "candidate"
    /\ cand.disp = "exists"
    /\ cand.ops = <<>>
    /\ cand.id[2] = 0
    /\ idx = 1
    /\ idx < Len(srcPapers)
    /\ srcPapers[idx + 1].pdf_url \notin {None, <<>>}

\* C16: in every call of search_arxiv and of search_doaj a delay is made
\* between any two successive page requests: every page request but the
\* first comes right after a delay, so that no two requests are back to back.
C16_DelayBetweenPages ==
    adapter \in {"arXiv", "DOAJ"} =>
        \A j \in 2..Len(trace) : trace[j].op = "get" => trace[j - 1].op = "sleep"

\* A call made of three page requests.
C16_Witness ==
    /\ adapter \in {"arXiv", "DOAJ"}
    /\ searchPc = "returned"
    /\ Len(Gets) = 3
    /\ Len(SelectSeq(trace, LAMBDA e : e.op = "sleep")) >= 2

(***************************************************************************)
(* The judge's answer.                                                     *)
(***************************************************************************)

Lower(s) == [k \in 1..Len(s) |-> IF s[k] \in 65..90 THEN s[k] + 32 ELSE s[k]]

\* The text of the "response" field the judge call of the candidate received
\* (empty when the request failed or the field is missing).
JudgeText == OpsOf("judge")[1].arg

\* C17: check_relevance_with_llm returns true if and only if the judge
\* answered and the text of the answer, with surrounding whitespace trimmed
\* and case ignored, is exactly "yes"; an empty or missing answer, "YES.",
\* "yes, b", "y es" and "NO" give false.
C17_AnswerParsing ==
    Judged =>
        /\ cand.verdict <=>
              (/\ cand.judge = "answer"
               /\ Lower(Strip(JudgeText)) = <<121, 101, 115>>)
        /\ (JudgeText \in { <<>>, <<89, 69, 83, 46>>, <<121, 101, 115, 44, 32, 98>>,
                            <<121, 32, 101, 115>>, <<78, 79>> }) => ~cand.verdict
        /\ cand.judge \in {"transport", "status", "malformed", "nokey"} => ~cand.verdict

\* The answer " yes\n" was taken as relevant.
C17_Witness ==
    /\ Judged
    /\ JudgeText = <<32, 121, 101, 115, 10>>
    /\ cand.verdict
    /\ cand.disp = "kept"

(***************************************************************************)
(* Stubs without a URL.                                                    *)
(***************************************************************************)

\* The identifier of an item of the answer of PMC (pmcid) or PLOS (id).
IdOf(item) == IF adapter = "PMC" THEN item.pmcid ELSE item.id

\* The items of the answer that carry their identifier.
Identified == {i \in 1..Len(entries) : IdOf(entries[i]) \notin {None, <<>>}}

\* C18: for a stub whose pdf_url is absent or empty download_papers makes no
\* fetch (and no other operation), creates no file, appends nothing to the
\* ledger and changes neither count; and search_pmc and search_plos return
\* no stub for an item that lacks its identifier: every stub returned has a
\* URL built from the identifier of an item, and there are no more stubs
\* than items with an identifier.
C18_NoUrlDropped ==
    /\ (Active /\ CandStub.pdf_url \in {None, <<>>}) =>
          /\ cand.disp = "dropped"
          /\ cand.ops = <<>>
          /\ CandPath \notin files
          /\ Len(ledger) = cand.ledger0
          /\ downloaded_count = cand.count0
          /\ rejected_count = cand.rej0
          /\ <<runs, cand.id[1], cand.id[2]>> \notin kept
    /\ (adapter \in {"PMC", "PLOS"} /\ searchPc = "returned") =>
          /\ Len(result) <= Cardinality(Identified)
          /\ \A k \in 1..Len(result) :
                /\ result[k].pdf_url \notin {None, <<>>}
                /\ \E i \in Identified : Contains(result[k].pdf_url, IdOf(entries[i]))

\* The first arXiv stub has an empty URL and was passed over; the second is
\* about to be started.
C18_Witness ==
    /\ pc = "candidate"
    /\ Active
    /\ CandStub.pdf_url = <<>>
    /\ cand.disp = "dropped"
    /\ idx = cand.id[2] + 1
    /\ idx < Len(srcPapers)

(***************************************************************************)
(* The counts and the re-runs.                                             *)
(***************************************************************************)

\* The stubs of this run that ended with a disposition of ds.
EndedAs(ds) == {e \in ended : e[1] = runs /\ e[4] \in ds}

\* The stubs of the four sources that have a pdf_url.
WithUrl ==
    UNION {{<<s, j>> : j \in {i \in 0..(Len(backend[s]) - 1) :
                                 backend[s][i + 1].pdf_url \notin {None, <<>>}}} :
           s \in 1..4}

\* C19: at the end of download_papers the kept total is the number of
\* candidates that ended kept (judged relevant, kept by fail-open, or found
\* on disk), the rejected total is the number that ended rejected as
\* irrelevant, and the download-failed candidates are in neither: the two
\* totals and the number of download-failed candidates add up to the number
\* of candidates that had a pdf_url.
C19_Counts ==
    pc = "total" =>
        /\ total_downloaded = Cardinality(EndedAs({"kept", "exists"}))
        /\ total_rejected = Cardinality(EndedAs({"rejected"}))
        /\ total_downloaded + total_rejected + Cardinality(EndedAs({"failed"}))
              = Cardinality(WithUrl)

\* The end of a second run over three sources: one candidate found on disk,
\* one rejected, one download-failed.
C19_Witness ==
    /\ pc = "total"
    /\ runs = 2
    /\ Cardinality(EndedAs({"exists"})) = 1
    /\ total_downloaded = 1
    /\ total_rejected = 1
    /\ Cardinality(EndedAs({"failed"})) = 1
    /\ Cardinality({e[2] : e \in EndedAs(Terminal)}) = 3

\* The runs that are over.
Completed == 1..Len(snapshot)

\* The record log_rejection writes for stub j of source s and reason why.
RecordOf(s, j, why) ==
    [filename |-> FileName(sources[s], j, backend[s][j + 1].title),
     query |-> query,
     url |-> backend[s][j + 1].pdf_url,
     reason |-> why]

ReasonOf(d) == IF d = "rejected" THEN "Not relevant to query" ELSE "Download failed"

\* The records of the ledger under the file name of stub j of source s.
RecordsOf(s, j) ==
    SelectSeq(ledger, LAMBDA rec : rec.filename = FileName(sources[s], j, backend[s][j + 1].title))

\* Every candidate that ended rejected or download-failed in the first run
\* ended the same way in every later run.
SameOutcomes ==
    \A e \in ended :
        (e[1] = 1 /\ e[4] \in {"rejected", "failed"}) =>
            \A r \in Completed : <<r, e[2], e[3], e[4]>> \in ended

\* C20: over the runs of download_papers for one query with the same source
\* results, a candidate that ended rejected or download-failed in a run is
\* fetched again in the next run; when it ended the same way in each of the n
\* runs made, the ledger holds exactly n records for it, all identical; and
\* when that is so for every such candidate, the set of files is the same
\* after every run.
C20_RerunRejected ==
    /\ \A e \in ended :
          (e[4] \in {"rejected", "failed"} /\ e[1] + 1 \in Completed) =>
              \E d \in {"kept", "rejected", "failed"} : <<e[1] + 1, e[2], e[3], d>> \in ended
    /\ pc = "idle" =>
          \A e \in ended :
              (/\ e[4] \in {"rejected", "failed"}
               /\ \A r \in Completed : <<r, e[2], e[3], e[4]>> \in ended) =>
                  /\ Len(RecordsOf(e[2], e[3])) = Len(snapshot)
                  /\ \A k \in 1..Len(RecordsOf(e[2], e[3])) :
                        RecordsOf(e[2], e[3])[k] = RecordOf(e[2], e[3], ReasonOf(e[4]))
    /\ (pc = "idle" /\ SameOutcomes) =>
          \A r \in Completed : snapshot[r] = snapshot[1]

\* Two runs over three sources: the DOAJ candidate was kept, the PMC
\* candidate rejected twice, the PLOS candidate download-failed twice; the
\* ledger holds four records and the files are those of the first run.
C20_Witness ==
    /\ pc = "idle"
    /\ Len(snapshot) = 2
    /\ SameOutcomes
    /\ \A r \in 1..2 : <<r, 3, 0, "rejected">> \in ended /\ <<r, 4, 0, "failed">> \in ended
    /\ Len(ledger) = 4
    /\ ledger[1] = ledger[3] /\ ledger[2] = ledger[4]
    /\ snapshot[1] # {}
    /\ snapshot[2] = snapshot[1]

=============================================================================
